---- MODULE Spec2Model ----
(***************************************************************************)
(* CX Complaints Insights dashboard (app.py, data_gen.py).                 *)
(*                                                                         *)
(* Three specifications share the variables below:                         *)
(*   SpecQuery  one call of get_filtered_data, statement by statement      *)
(*   Spec       one Shiny session: inputs, the filtered_df calc, the nine  *)
(*              outputs, the flush cycle and the client's display          *)
(*   SpecRank   one call of get_complex_sql_metrics                        *)
(***************************************************************************)
EXTENDS Integers, Sequences, FiniteSets, TLC

VARIABLES
    store,       \* the complaints table: a sequence of rows, in storage order
    input,       \* the five filter inputs (date_range, country, channel, category, status)
    pc,          \* position inside the call a specification steps through
    query,       \* get_filtered_data's local `query`: a sequence of SQL tokens
    params,      \* get_filtered_data's local `params`
    df,          \* the DataFrame the call returned
    openConns,   \* connections opened by sqlite3.connect and not closed
    connects,    \* number of sqlite3.connect calls made by get_filtered_data
    tab,         \* the selected nav panel of main_navbar
    choices,     \* the selectize choices set by the initialising effect
    calc,        \* the cache of the reactive calc filtered_df
    invalidated, \* effects / outputs whose context is invalidated
    outbound,    \* the session's outbound message queue: output -> message
    display,     \* what the client shows per output
    calcRuns,    \* number of executions of filtered_df's body
    changes,     \* number of filter-change events received
    metrics,     \* the rows returned by get_complex_sql_metrics
    sumOrder     \* the order in which the SUM window visited the DailyStats rows

vars == <<store, input, pc, query, params, df, openConns, connects, tab, choices,
          calc, invalidated, outbound, display, calcRuns, changes, metrics, sumOrder>>

queryVars == <<pc, query, params, df>>
sessionVars == <<tab, choices, calc, invalidated, outbound, display, calcRuns, changes>>
rankVars == <<metrics, sumOrder>>

(***************************************************************************)
(* Bounds of the model.                                                    *)
(***************************************************************************)
\* rows of the table the query specification generates (48 = every row kind once)
QueryRows == 48
\* filter-change events one session receives
MaxChanges == 2
\* rows of the table the ranking specification generates
RankRows == 5

(***************************************************************************)
(* Dates and text.  The table stores dates as ISO text (strftime           *)
(* '%Y-%m-%d'); sqlite3 adapts a datetime.date parameter to the same text, *)
(* and BETWEEN compares text byte by byte.  Text is a sequence of ASCII    *)
(* codes.                                                                   *)
(***************************************************************************)
Date(y, m, d) == [y |-> y, m |-> m, d |-> d]

DateLeq(a, b) ==
    \/ a.y < b.y
    \/ a.y = b.y /\ a.m < b.m
    \/ a.y = b.y /\ a.m = b.m /\ a.d <= b.d

Digit(n) == 48 + n
Hyphen == 45

RECURSIVE Digits(_)
Digits(n) == IF n < 10 THEN <<Digit(n)>> ELSE Digits(n \div 10) \o <<Digit(n % 10)>>

RECURSIVE ZeroPad(_, _)
ZeroPad(s, w) == IF Len(s) >= w THEN s ELSE ZeroPad(<<Digit(0)>> \o s, w)

\* a plausible slip: '%Y-%-m-%-d', no zero padding
IsoFormatUnpadded(dt) == Digits(dt.y) \o <<Hyphen>> \o Digits(dt.m) \o <<Hyphen>> \o Digits(dt.d)

IsoFormat(dt) ==
    ZeroPad(Digits(dt.y), 4) \o <<Hyphen>> \o ZeroPad(Digits(dt.m), 2)
        \o <<Hyphen>> \o ZeroPad(Digits(dt.d), 2)

RECURSIVE TextLeq(_, _)
TextLeq(a, b) ==
    IF a = <<>> THEN TRUE
    ELSE IF b = <<>> THEN FALSE
    ELSE IF a[1] < b[1] THEN TRUE
    ELSE IF a[1] > b[1] THEN FALSE
    ELSE TextLeq(Tail(a), Tail(b))

(***************************************************************************)
(* The table (data_gen.generate_data).                                     *)
(***************************************************************************)
countries == <<"USA", "UK">>
channels == <<"Email", "Phone">>
categories == <<"Billing", "Technical Support">>
statuses == <<"Open", "Closed">>
QueryDates == <<Date(2025, 1, 3), Date(2025, 2, 10), Date(2025, 10, 2)>>

Range(s) == {s[i] : i \in DOMAIN s}

Row(id, date, country, channel, category, status, sla, cents, esc) ==
    [complaint_id |-> id, date |-> IsoFormat(date), country |-> country,
     channel |-> channel, category |-> category, status |-> status,
     sla_hours |-> sla, amount |-> cents, is_escalated |-> esc]

\* n rows; the k-th draws each column from its list, so that n = 48 rows hold
\* every combination of date, country, channel, category and status once.
generate_data(n) ==
    [i \in 1..n |->
        LET k == i - 1 IN
        Row(i,
            QueryDates[(k % 3) + 1],
            countries[((k \div 3) % 2) + 1],
            channels[((k \div 6) % 2) + 1],
            categories[((k \div 12) % 2) + 1],
            statuses[((k \div 24) % 2) + 1],
            12 + (k % 7) * 9,
            1000 + (k % 5) * 1225,
            IF k % 4 = 0 THEN 1 ELSE 0)]

(***************************************************************************)
(* get_filtered_data: the query text and the parameter list.               *)
(***************************************************************************)
BaseQuery ==
    <<"SELECT", "*", "FROM", "complaints", "WHERE", "date", "BETWEEN", "?", "AND", "?">>

RECURSIVE Placeholders(_)
Placeholders(n) ==
    IF n = 0 THEN <<>>
    ELSE IF n = 1 THEN <<"?">>
    ELSE Placeholders(n - 1) \o <<",", "?">>

RECURSIVE Joined(_)
Joined(vals) ==
    IF vals = <<>> THEN <<>>
    ELSE IF Len(vals) = 1 THEN <<vals[1]>>
    ELSE <<vals[1], ",">> \o Joined(Tail(vals))

\* a plausible slip: the values formatted into the text
InClauseInterpolated(col, vals) == <<"AND", col, "IN", "(">> \o Joined(vals) \o <<")">>

InClause(col, vals) == <<"AND", col, "IN", "(">> \o Placeholders(Len(vals)) \o <<")">>

\* a plausible slip: the clause appended whether or not anything is selected
AddFilterAlways(qp, col, vals) ==
    [query |-> qp.query \o InClause(col, vals), params |-> qp.params \o vals]

\* a plausible slip: the clauses joined with OR
AddFilterOr(qp, col, vals) ==
    IF vals # <<>>
    THEN [query |-> qp.query \o <<"OR">> \o Tail(InClause(col, vals)),
          params |-> qp.params \o vals]
    ELSE qp

\* `if vals: query += ...; params.extend(vals)`
AddFilter(qp, col, vals) ==
    IF vals # <<>>
    THEN [query |-> qp.query \o InClause(col, vals), params |-> qp.params \o vals]
    ELSE qp

BuildQuery(sel) ==
    LET q0 == [query |-> BaseQuery, params |-> <<sel.date_range[1], sel.date_range[2]>>]
        q1 == AddFilter(q0, "country", sel.country)
        q2 == AddFilter(q1, "channel", sel.channel)
        q3 == AddFilter(q2, "category", sel.category)
    IN  AddFilter(q3, "status", sel.status)

(***************************************************************************)
(* pd.read_sql(query, conn, params): SQLite binds the i-th parameter to    *)
(* the i-th '?' of the text and evaluates the WHERE clause on every row.   *)
(***************************************************************************)
\* sqlite3's default adapter: a datetime.date is bound as its ISO text (a str
\* is bound as it is)
AdaptDate(v) == IsoFormat(v)

RECURSIVE CloseIdx(_, _)
CloseIdx(q, j) == IF q[j] = ")" THEN j ELSE CloseIdx(q, j + 1)

\* the values of the list q[a..b]: a '?' takes the next parameter, any other
\* item is a literal
RECURSIVE ListValues(_, _, _, _, _)
ListValues(q, a, b, ps, p) ==
    IF a > b THEN [vals |-> {}, next |-> p]
    ELSE IF q[a] = "," THEN ListValues(q, a + 1, b, ps, p)
    ELSE IF q[a] = "?"
         THEN LET rest == ListValues(q, a + 1, b, ps, p + 1)
              IN  [vals |-> {ps[p]} \cup rest.vals, next |-> rest.next]
         ELSE LET rest == ListValues(q, a + 1, b, ps, p)
              IN  [vals |-> {q[a]} \cup rest.vals, next |-> rest.next]

\* the WHERE clause from token i on, evaluated on row r: AND binds tighter than OR
RECURSIVE EvalTail(_, _, _, _, _, _)
EvalTail(q, i, ps, p, r, acc) ==
    IF i > Len(q) THEN acc
    ELSE LET c == CloseIdx(q, i + 3)
             lv == ListValues(q, i + 4, c - 1, ps, p)
             hit == r[q[i + 1]] \in lv.vals
         IN  IF q[i] = "AND"
             THEN EvalTail(q, c + 1, ps, lv.next, r, acc /\ hit)
             ELSE acc \/ EvalTail(q, c + 1, ps, lv.next, r, hit)

Where(q, ps, r) ==
    LET between == TextLeq(AdaptDate(ps[1]), r.date) /\ TextLeq(r.date, AdaptDate(ps[2]))
    IN  EvalTail(q, Len(BaseQuery) + 1, ps, 3, r, between)

read_sql(q, ps, table) == SelectSeq(table, LAMBDA r : Where(q, ps, r))

\* the whole call when the query does not raise
get_filtered_data(table, sel) ==
    LET qp == BuildQuery(sel) IN read_sql(qp.query, qp.params, table)

Dimensions == {"country", "channel", "category", "status"}

(***************************************************************************)
(* Filter selections.  A selectize input yields the tuple of the selected  *)
(* values, in selection order and without repetition.                      *)
(***************************************************************************)
SelTuples(S) ==
    UNION {{t \in [1..n -> S] : \A i, j \in 1..n : i # j => t[i] # t[j]} :
              n \in 0..Cardinality(S)}

QuerySelections ==
    [date_range : Range(QueryDates) \X Range(QueryDates),
     country : SelTuples(Range(countries)),
     channel : SelTuples(Range(channels)),
     category : SelTuples(Range(categories)),
     status : SelTuples(Range(statuses))]

NoSelection(range) ==
    [date_range |-> range, country |-> <<>>, channel |-> <<>>, category |-> <<>>,
     status |-> <<>>]

(***************************************************************************)
(* Neutral values of the variables a specification does not step.          *)
(***************************************************************************)
NoMessage == [kind |-> "none", text |-> "", run |-> 0]
NoCalc == [valid |-> FALSE, ok |-> FALSE, df |-> <<>>, sel |-> <<>>, run |-> 0]

QueryIdle ==
    /\ pc = "start" /\ query = <<>> /\ params = <<>> /\ df = <<>>

SessionIdle ==
    /\ tab = "Overview" /\ choices = <<>> /\ calc = NoCalc /\ invalidated = {}
    /\ outbound = <<>> /\ display = <<>> /\ calcRuns = 0 /\ changes = 0

RankIdle ==
    /\ metrics = <<>> /\ sumOrder = <<>>

(***************************************************************************)
(* SpecQuery: one call of get_filtered_data (app.py 17-42).                *)
(***************************************************************************)
InitQuery ==
    /\ store \in {generate_data(0), generate_data(QueryRows)}
    /\ input \in QuerySelections
    /\ openConns = 0 /\ connects = 0
    /\ QueryIdle /\ SessionIdle /\ RankIdle

\* line 18: conn = sqlite3.connect(DB_PATH)
Connect ==
    /\ pc = "start"
    /\ openConns' = openConns + 1
    /\ connects' = connects + 1
    /\ pc' = "connected"
    /\ UNCHANGED <<store, input, query, params, df, sessionVars, rankVars>>

\* lines 21-38: the query text and the parameter list
Build ==
    /\ pc = "connected"
    /\ query' = BuildQuery(input).query
    /\ params' = BuildQuery(input).params
    /\ pc' = "built"
    /\ UNCHANGED <<store, input, df, openConns, connects, sessionVars, rankVars>>

\* line 40: pd.read_sql returns the matching rows
ReadSqlReturns ==
    /\ pc = "built"
    /\ df' = read_sql(query, params, store)
    /\ pc' = "read"
    /\ UNCHANGED <<store, input, query, params, openConns, connects, sessionVars, rankVars>>

\* line 40: pd.read_sql raises (no such table, database locked, unreadable
\* file); the exception leaves the function, lines 41-42 are not reached
ReadSqlRaises ==
    /\ pc = "built"
    /\ pc' = "raised"
    /\ UNCHANGED <<store, input, query, params, df, openConns, connects, sessionVars,
                   rankVars>>

\* lines 41-42: conn.close(); return df
CloseAndReturn ==
    /\ pc = "read"
    /\ openConns' = openConns - 1
    /\ pc' = "returned"
    /\ UNCHANGED <<store, input, query, params, df, connects, sessionVars, rankVars>>

NextQuery ==
    \/ Connect
    \/ Build
    \/ ReadSqlReturns
    \/ ReadSqlRaises
    \/ CloseAndReturn

SpecQuery == InitQuery /\ [][NextQuery]_vars

(***************************************************************************)
(* The KPI renderers (app.py 194-215) and the other outputs (217-307).     *)
(* Amounts are held in cents; a format with a fixed number of decimals     *)
(* rounds the exact value half to even, as Python's float formatting does  *)
(* for a value that is exactly representable.                              *)
(***************************************************************************)
RECURSIVE SumOf(_, _)
SumOf(d, col) == IF d = <<>> THEN 0 ELSE d[1][col] + SumOf(Tail(d), col)

RoundHalfEven(num, den) ==
    LET q == num \div den
        r == num % den
    IN  IF 2 * r < den THEN q
        ELSE IF 2 * r > den THEN q + 1
        ELSE IF q % 2 = 0 THEN q ELSE q + 1

\* f"{n:,}"
RECURSIVE Commas(_)
Commas(n) ==
    IF n < 1000 THEN ToString(n)
    ELSE Commas(n \div 1000) \o "," \o ToString((n % 1000) \div 100)
             \o ToString((n % 100) \div 10) \o ToString(n % 10)

\* f"{num/den:.1f}"
Fixed1(num, den) ==
    LET t == RoundHalfEven(num * 10, den)
    IN  ToString(t \div 10) \o "." \o ToString(t % 10)

total_complaints(d) == Commas(Len(d))

\* a plausible slip: no guard; numpy's 0/0 is nan
escalation_rate_unguarded(d) ==
    IF Len(d) = 0 THEN "nan%"
    ELSE Fixed1(SumOf(d, "is_escalated") * 100, Len(d)) \o "%"

escalation_rate(d) ==
    IF Len(d) = 0 THEN "0.0%"
    ELSE Fixed1(SumOf(d, "is_escalated") * 100, Len(d)) \o "%"

avg_sla(d) ==
    IF Len(d) = 0 THEN "0.0"
    ELSE Fixed1(SumOf(d, "sla_hours"), Len(d))

total_amount(d) ==
    IF Len(d) = 0 THEN "$0"
    ELSE "$" \o Commas(RoundHalfEven(SumOf(d, "amount"), 100))

KPIs == {"total_complaints", "escalation_rate", "avg_sla", "total_amount"}

\* the outputs, in the order server() defines them
OutputIds ==
    <<"total_complaints", "escalation_rate", "avg_sla", "total_amount",
      "time_series_plot", "category_bar_plot", "complaints_table",
      "country_rank_plot", "channel_bar_plot">>

Outputs == Range(OutputIds)

\* the nav panel an output is laid out in
Panel(o) ==
    IF o \in {"country_rank_plot", "channel_bar_plot"} THEN "Drill-down" ELSE "Overview"

\* what a renderer returns for the DataFrame d; figures and the table are not
\* modelled beyond their "no data" branch
Render(o, d) ==
    CASE o = "total_complaints" -> total_complaints(d)
      [] o = "escalation_rate" -> escalation_rate(d)
      [] o = "avg_sla" -> avg_sla(d)
      [] o = "total_amount" -> total_amount(d)
      [] o = "time_series_plot" ->
            IF d = <<>> THEN "No data available for selected filters." ELSE "figure"
      [] o = "category_bar_plot" ->
            IF d = <<>> THEN "No data available." ELSE "figure"
      [] o = "complaints_table" -> "DataTable"
      [] OTHER -> IF d = <<>> THEN "No data." ELSE "figure"

(***************************************************************************)
(* Spec: one session.  Shiny runs one flush at a time per session: an      *)
(* input message is handled only between flushes; a flush runs the         *)
(* invalidated effects that are not suspended, oldest first, queues their  *)
(* results and sends the queue to the client in one message.  An output    *)
(* that is hidden on the client is suspended (suspend_when_hidden) and     *)
(* runs when it is shown again.                                            *)
(***************************************************************************)
\* a small complaints table: two countries, one escalated row
ScenarioStore ==
    <<Row(1, Date(2025, 1, 1), "USA", "Email", "Billing", "Open", 10, 10000, 1),
      Row(2, Date(2025, 1, 2), "UK", "Phone", "Technical Support", "Closed", 20, 20000, 0),
      Row(3, Date(2025, 1, 3), "USA", "Email", "Billing", "Open", 30, 30000, 0)>>

\* input_date_range(start="2025-01-01", end="2025-12-31")
DefaultRange == <<Date(2025, 1, 1), Date(2025, 12, 31)>>

\* the date ranges a user picks in the model: a narrower one, a reversed one
DateRanges ==
    {DefaultRange, <<Date(2025, 1, 2), Date(2025, 12, 31)>>,
     <<Date(2025, 12, 31), Date(2025, 1, 1)>>}

Distinct(table, col) == {table[i][col] : i \in DOMAIN table}

NoMessages == [o \in Outputs |-> NoMessage]

Visible == {o \in Outputs : Panel(o) = tab}

InitPending == "init_choices" \in invalidated

\* nothing left to run in this flush and nothing left to send
Settled ==
    /\ ~InitPending
    /\ invalidated \cap Visible = {}
    /\ \A o \in Outputs : outbound[o].kind = "none"

Init ==
    /\ store \in {ScenarioStore, <<>>}
    /\ input = NoSelection(DefaultRange)
    /\ openConns = 0 /\ connects = 0
    /\ tab = "Overview"
    /\ choices = <<>>
    /\ calc = NoCalc
    /\ invalidated = {"init_choices"} \cup Outputs
    /\ outbound = NoMessages
    /\ display = NoMessages
    /\ calcRuns = 0 /\ changes = 0
    /\ QueryIdle /\ RankIdle

\* lines 171-180: the initialising effect discovers the distinct values
RunInitEffect ==
    /\ InitPending
    /\ choices' = [col \in Dimensions |-> Distinct(store, col)]
    /\ invalidated' = invalidated \ {"init_choices"}
    /\ UNCHANGED <<store, input, queryVars, openConns, connects, tab, calc, outbound,
                   display, calcRuns, changes, rankVars>>

\* a mutant of the calc: its body runs on every read
NeverMemoized == FALSE

\* @reactive.calc: a read returns the cached result while the calc is valid
Memoized == calc.valid

\* lines 184-191: filtered_df's body; the call of get_filtered_data returns
\* the rows or raises
Execute(raises) ==
    [valid |-> TRUE, ok |-> ~raises,
     df |-> IF raises THEN <<>> ELSE get_filtered_data(store, input),
     sel |-> input, run |-> calcRuns + 1]

\* a plausible slip: one renderer swallows the failure and shows its zero
OutputMessageSwallowing(o, c) ==
    IF c.ok THEN [kind |-> "value", text |-> Render(o, c.df), run |-> c.run]
    ELSE IF o = "escalation_rate" THEN [kind |-> "value", text |-> "0.0%", run |-> c.run]
    ELSE [kind |-> "error", text |-> "error", run |-> c.run]

\* what the session queues for output o: the rendered value, or the error
\* the renderer's read of filtered_df re-raised
OutputMessage(o, c) ==
    IF c.ok THEN [kind |-> "value", text |-> Render(o, c.df), run |-> c.run]
    ELSE [kind |-> "error", text |-> "error", run |-> c.run]

\* the first invalidated output that is not suspended
NextOutput ==
    LET i == CHOOSE i \in DOMAIN OutputIds :
                 /\ OutputIds[i] \in invalidated \cap Visible
                 /\ \A j \in 1..(i - 1) : OutputIds[j] \notin invalidated \cap Visible
    IN  OutputIds[i]

\* lines 194-307: one renderer runs; its read of filtered_df() executes the
\* calc when the calc is invalidated
RunOutput ==
    /\ ~InitPending
    /\ invalidated \cap Visible # {}
    /\ \E raises \in BOOLEAN :
          LET o == NextOutput
              hit == Memoized
              c == IF hit THEN calc ELSE Execute(raises)
          IN  /\ hit => ~raises
              /\ calc' = c
              /\ calcRuns' = IF hit THEN calcRuns ELSE calcRuns + 1
              /\ connects' = IF hit THEN connects ELSE connects + 1
              /\ openConns' = IF raises THEN openConns + 1 ELSE openConns
              /\ outbound' = [outbound EXCEPT ![o] = OutputMessage(o, c)]
              /\ invalidated' = invalidated \ {o}
    /\ UNCHANGED <<store, input, queryVars, tab, choices, display, changes, rankVars>>

\* the end of a flush: the queued values and errors go to the client in one
\* message
Flushed ==
    /\ ~InitPending
    /\ invalidated \cap Visible = {}
    /\ \E o \in Outputs : outbound[o].kind # "none"
    /\ display' = [o \in Outputs |->
                      IF outbound[o].kind # "none" THEN outbound[o] ELSE display[o]]
    /\ outbound' = NoMessages
    /\ UNCHANGED <<store, input, queryVars, openConns, connects, tab, choices, calc,
                   invalidated, calcRuns, changes, rankVars>>

\* a mutant: only the KPI outputs depend on the calc
DependentsKpisOnly == KPIs

\* the outputs that read filtered_df(): all nine
Dependents == Outputs

\* the values a filter input can take: a date range, or a tuple of choices
InputValues(name) ==
    IF name = "date_range" THEN DateRanges ELSE SelTuples(choices[name])

\* lines 92-96: the user changes one filter in the sidebar of the Overview
\* panel; filtered_df and everything that read it are invalidated
SetFilterInput ==
    /\ Settled
    /\ tab = "Overview"
    /\ changes < MaxChanges
    /\ \E name \in Dimensions \cup {"date_range"} :
          \E v \in InputValues(name) :
             /\ v # input[name]
             /\ input' = [input EXCEPT ![name] = v]
    /\ calc' = [calc EXCEPT !.valid = FALSE]
    /\ invalidated' = invalidated \cup Dependents
    /\ changes' = changes + 1
    /\ UNCHANGED <<store, queryVars, openConns, connects, tab, choices, outbound, display,
                   calcRuns, rankVars>>

\* lines 82-164: the user selects the other nav panel; its outputs become
\* visible (resumed), the others hidden (suspended)
SwitchTab ==
    /\ Settled
    /\ tab' = IF tab = "Overview" THEN "Drill-down" ELSE "Overview"
    /\ UNCHANGED <<store, input, queryVars, openConns, connects, choices, calc,
                   invalidated, outbound, display, calcRuns, changes, rankVars>>

Next ==
    \/ RunInitEffect
    \/ RunOutput
    \/ Flushed
    \/ SetFilterInput
    \/ SwitchTab

Spec == Init /\ [][Next]_vars

(***************************************************************************)
(* Properties of get_filtered_data, checked under SpecQuery.               *)
(***************************************************************************)
KnownDates ==
    Range(QueryDates) \cup
        {Date(2025, 1, 1), Date(2025, 1, 2), Date(2025, 1, 3), Date(2025, 12, 31),
         Date(2025, 1, 9), Date(2025, 1, 10), Date(2025, 2, 1)}

\* the calendar date a stored row's text stands for
StoredDate(r) == CHOOSE d \in KnownDates : IsoFormat(d) = r.date

InDateRange(r, sel) ==
    /\ DateLeq(sel.date_range[1], StoredDate(r))
    /\ DateLeq(StoredDate(r), sel.date_range[2])

Qualifies(r, sel) ==
    /\ InDateRange(r, sel)
    /\ \A col \in Dimensions : sel[col] # <<>> => r[col] \in Range(sel[col])

AllEmpty(sel) == \A col \in Dimensions : sel[col] = <<>>

Built == pc \in {"built", "read", "raised", "returned"}

\* C1: the rows get_filtered_data returns are exactly the stored rows whose
\* date lies in [start, end] (calendar order, both ends included, nothing when
\* start is after end) and whose country, channel, category and status each
\* belong to the selected set whenever that set is non-empty; each once.
C1_WorkingSetIsExact ==
    pc = "returned" =>
        /\ Range(df) = {r \in Range(store) : Qualifies(r, input)}
        /\ Len(df) = Cardinality(Range(df))

\* all four dimensions restricted, something returned, and a row inside the
\* date range left out because exactly one dimension rejects it
C1_Witness ==
    /\ pc = "returned"
    /\ \A col \in Dimensions : input[col] # <<>>
    /\ df # <<>>
    /\ \E r \in Range(store) :
          /\ r \notin Range(df)
          /\ InDateRange(r, input)
          /\ Cardinality({col \in Dimensions : r[col] \in Range(input[col])}) = 3

\* C2: a dimension gets an IN clause exactly when its selected set is
\* non-empty; with all four empty the text is the base query, the parameters
\* are the two dates, and the rows returned are all rows in the date range.
C2_EmptySetIsNoRestriction ==
    /\ Built =>
          /\ \A col \in Dimensions : (col \in Range(query)) <=> (input[col] # <<>>)
          /\ AllEmpty(input) =>
                /\ query = BaseQuery
                /\ params = <<input.date_range[1], input.date_range[2]>>
    /\ (pc = "returned" /\ AllEmpty(input)) =>
          Range(df) = {r \in Range(store) : InDateRange(r, input)}

C2_Witness ==
    /\ pc = "returned"
    /\ AllEmpty(input)
    /\ df # <<>>
    /\ Len(df) < Len(store)

SqlTokens == Range(BaseQuery) \cup {"AND", "IN", "(", ")", ",", "?"} \cup Dimensions

CountOf(tok, q) == Cardinality({i \in DOMAIN q : q[i] = tok})

TuplesOfLen(S, n) == {t \in SelTuples(S) : Len(t) = n}

\* the selections whose four sets have the sizes of sel's
SameSizes(sel) ==
    [date_range : Range(QueryDates) \X Range(QueryDates),
     country : TuplesOfLen(Range(countries), Len(sel.country)),
     channel : TuplesOfLen(Range(channels), Len(sel.channel)),
     category : TuplesOfLen(Range(categories), Len(sel.category)),
     status : TuplesOfLen(Range(statuses), Len(sel.status))]

\* C3: the query text holds SQL tokens and '?' only, never a selected value;
\* it has as many '?' as there are parameters; the parameters are start, end,
\* then the selected countries, channels, categories and statuses in that
\* order; any selection with sets of the same sizes yields the same text.
C3_ValuesAreBoundParameters ==
    Built =>
        /\ Range(query) \subseteq SqlTokens
        /\ \A col \in Dimensions : Range(query) \cap Range(input[col]) = {}
        /\ CountOf("?", query) = Len(params)
        /\ params = <<input.date_range[1], input.date_range[2]>> \o input.country
                        \o input.channel \o input.category \o input.status
        /\ \A other \in SameSizes(input) : BuildQuery(other).query = query

C3_Witness ==
    /\ pc = "built"
    /\ Len(params) = 10
    /\ \E other \in SameSizes(input) : other # input

\* C4: a call opens exactly one connection and none is open once the call has
\* ended, whether it returned or raised.
C4_ConnectionReleasedOnEveryExit ==
    pc \in {"returned", "raised"} => (connects = 1 /\ openConns = 0)

(***************************************************************************)
(* Properties of the session, checked under Spec.                          *)
(***************************************************************************)
Shown(o, text) == display[o].kind = "value" /\ display[o].text = text

\* C5: when the Working Set is empty the four KPIs each show a value, none an
\* error: total_complaints "0", escalation_rate "0.0%", avg_sla "0.0" and
\* total_amount "$0".
C5_EmptyWorkingSetKpis ==
    (Settled /\ calc.ok /\ calc.df = <<>>) =>
        /\ Shown("total_complaints", "0")
        /\ Shown("escalation_rate", "0.0%")
        /\ Shown("avg_sla", "0.0")
        /\ Shown("total_amount", "$0")

\* an empty Working Set over a table that has rows: a filter excluded them all
C5_Witness ==
    /\ Settled /\ calc.ok /\ calc.df = <<>>
    /\ store # <<>>
    /\ changes > 0
    /\ Shown("escalation_rate", "0.0%")

\* C6: once a flush has settled, the four KPIs shown all come from the one
\* execution of filtered_df made for the current filter inputs (same run, and
\* when it succeeded, the values rendered from the rows get_filtered_data
\* yields for those inputs); get_filtered_data is called by filtered_df only,
\* so the number of queries equals the number of executions of the calc.
C6_KpisShareOneSnapshot ==
    /\ connects = calcRuns
    /\ Settled =>
          /\ calc.valid /\ calc.sel = input /\ calc.run = calcRuns
          /\ \A k \in KPIs :
                /\ display[k].run = calc.run
                /\ calc.ok => Shown(k, Render(k, get_filtered_data(store, input)))

\* country = {USA} over the full range: rows 1 and 3 of the small table
C6_Witness ==
    /\ Settled /\ calc.ok
    /\ input.country = <<"USA">> /\ input.date_range = DefaultRange
    /\ input.category = <<>>
    /\ Shown("total_complaints", "2")
    /\ Shown("escalation_rate", "50.0%")
    /\ Shown("avg_sla", "20.0")
    /\ Shown("total_amount", "$400")

\* C7 as stated: filtered_df executes once per filter change and every
\* downstream output is recomputed after each execution.
C7_EveryOutputRecomputed ==
    /\ calcRuns <= changes + 1
    /\ Settled =>
          /\ calcRuns = changes + 1
          /\ changes > 0 => \A o \in Outputs : display[o].run = calc.run

\* C7 as amended: filtered_df executes exactly once for the initial inputs and
\* once per filter change, never more, however many outputs read it and
\* whatever panel is shown; after a flush every output that is visible shows
\* the result of the latest execution, while an output on the hidden panel is
\* not recomputed until its panel is shown, and then without a new execution.
C7_VisibleOutputsRecomputed ==
    /\ calcRuns <= changes + 1
    /\ Settled =>
          /\ calcRuns = changes + 1
          /\ \A o \in Visible : display[o].run = calc.run
          /\ \A o \in Outputs \ Visible : o \in invalidated \/ display[o].run = calc.run

\* two filter changes, then the Drill-down panel shown: its outputs carry the
\* third execution although they never ran for the second
C7_Witness ==
    /\ Settled
    /\ changes = 2 /\ calcRuns = 3
    /\ tab = "Drill-down"
    /\ display["country_rank_plot"].run = 3
    /\ display["total_complaints"].run = 3

\* C8 as stated: the four KPIs shown are always values of one successful
\* snapshot, the new one or the last successful one; a failure shows nothing
\* else.
C8_StaleValuesRemain ==
    \A k1, k2 \in KPIs :
        /\ display[k1].kind # "error"
        /\ display[k1].run = display[k2].run

\* C8 as amended: the four KPIs shown are never a mix: in every state they are
\* all blank (nothing sent yet), or all values rendered from the rows of one
\* successful execution of filtered_df, or all the error of one failed
\* execution; after a failed recomputation they show that error, not the
\* prior values, until a later recomputation succeeds.
C8_NoPartialKpiSet ==
    /\ \A k1, k2 \in KPIs :
          /\ display[k1].kind = display[k2].kind
          /\ display[k1].run = display[k2].run
    /\ \A k \in KPIs :
          /\ display[k].kind = "none" <=> display[k].run = 0
          /\ display[k].run = calc.run =>
                /\ display[k].kind = "error" <=> (calc.run > 0 /\ ~calc.ok)
                /\ display[k].kind = "value" => display[k].text = Render(k, calc.df)
    /\ (Settled /\ ~calc.ok) => \A k \in KPIs : display[k].kind = "error"

\* a failed recomputation after a successful one: the values are replaced
C8_Witness ==
    /\ Settled
    /\ calc.run = 2 /\ ~calc.ok
    /\ openConns = 1
    /\ \A k \in KPIs : display[k].kind = "error" /\ display[k].run = 2

(***************************************************************************)
(* SpecRank: get_complex_sql_metrics (app.py 44-78).                       *)
(***************************************************************************)
RankDates == <<Date(2025, 1, 9), Date(2025, 1, 10), Date(2025, 2, 1)>>
RankAmounts == <<1250, 0, 3075>>

\* the kinds of row of the ranking tables: date, category, country
RowKinds == 0..11

\* the row stored with complaint_id id: its kind gives the group, its id the
\* amount (in cents)
KindRow(id, t) ==
    Row(id, RankDates[(t % 3) + 1], countries[((t \div 3) % 2) + 1], "Email",
        categories[((t \div 6) % 2) + 1], "Open", 12, RankAmounts[(id % 3) + 1], 0)

\* the sequences of n row kinds from lo on, in non-decreasing order: the
\* query groups the rows, so one storage order per multiset of rows is kept
RECURSIVE KindSeqs(_, _)
KindSeqs(n, lo) ==
    IF n = 0 THEN {<<>>}
    ELSE UNION {{<<t>> \o s : s \in KindSeqs(n - 1, t)} : t \in {k \in RowKinds : k >= lo}}

RankStores ==
    {[i \in DOMAIN ts |-> KindRow(i, ts[i])] : ts \in UNION {KindSeqs(n, 0) : n \in 0..RankRows}}

\* LIMIT 100
Limit == 100

GroupKey(r) == <<r.date, r.category, r.country>>

\* WITH DailyStats AS (... GROUP BY date, category, country)
DailyStats(table) ==
    {LET members == SelectSeq(table, LAMBDA r : GroupKey(r) = k)
     IN  [date |-> k[1], category |-> k[2], country |-> k[3],
          daily_count |-> Len(members), daily_amount |-> SumOf(members, "amount")] :
       k \in {GroupKey(table[i]) : i \in DOMAIN table}}

\* a partition in the order of its window: daily_count descending
RECURSIVE SortByCountDesc(_)
SortByCountDesc(S) ==
    IF S = {} THEN <<>>
    ELSE LET g == CHOOSE g \in S : \A h \in S : h.daily_count <= g.daily_count
         IN  <<g>> \o SortByCountDesc(S \ {g})

\* a mutant: DENSE_RANK()
RECURSIVE DenseRankAt(_, _)
DenseRankAt(s, i) ==
    IF i = 1 THEN 1
    ELSE IF s[i].daily_count = s[i - 1].daily_count THEN DenseRankAt(s, i - 1)
    ELSE DenseRankAt(s, i - 1) + 1

\* RANK() of the i-th row of the sorted partition s: the position of its
\* first peer
RECURSIVE RankAt(_, _)
RankAt(s, i) ==
    IF i = 1 THEN 1
    ELSE IF s[i].daily_count = s[i - 1].daily_count THEN RankAt(s, i - 1)
    ELSE i

\* the orders ORDER BY date allows: ascending date text, peers in any order
RECURSIVE DateOrders(_)
DateOrders(S) ==
    IF S = {} THEN {<<>>}
    ELSE UNION {{<<g>> \o rest : rest \in DateOrders(S \ {g})} :
                   g \in {g \in S : \A h \in S : TextLeq(g.date, h.date)}}

\* a mutant: the SUM window partitioned by country as well
RECURSIVE CumulativeAmountByCountry(_, _)
CumulativeAmountByCountry(ord, i) ==
    IF i = 0 THEN 0
    ELSE LET below == {j \in 1..(i - 1) : ord[j].country = ord[i].country}
             prev == IF below = {} THEN 0
                     ELSE CHOOSE j \in below : \A l \in below : l <= j
         IN  ord[i].daily_amount + CumulativeAmountByCountry(ord, prev)

\* SUM(daily_amount) OVER (ORDER BY date ROWS BETWEEN UNBOUNDED PRECEDING AND
\* CURRENT ROW) for the i-th row of the order: the frame is rows 1..i
CumulativeAmount(ord, i) == SumOf(SubSeq(ord, 1, i), "daily_amount")

\* RankedCategories: every DailyStats row with its two window columns,
\* partition by partition
RankedCategories(stats, ord) ==
    LET part(c) == SortByCountDesc({g \in stats : g.country = c})
        ranked(c) ==
            [i \in DOMAIN part(c) |->
                LET g == part(c)[i]
                    at == CHOOSE j \in DOMAIN ord : ord[j] = g
                IN  g @@ [category_rank |-> RankAt(part(c), i),
                          cumulative_amount |-> CumulativeAmount(ord, at)]]
    IN  ranked(countries[2]) \o ranked(countries[1])

Head100(s) == IF Len(s) <= Limit THEN s ELSE SubSeq(s, 1, Limit)

InitRank ==
    /\ store \in RankStores
    /\ input = NoSelection(DefaultRange)
    /\ openConns = 0 /\ connects = 0
    /\ QueryIdle /\ SessionIdle /\ RankIdle

\* lines 50-78: connect, run the query, close, return the rows
GetComplexSqlMetrics ==
    /\ pc = "start"
    /\ \E ord \in DateOrders(DailyStats(store)) :
          /\ sumOrder' = ord
          /\ metrics' = Head100(RankedCategories(DailyStats(store), ord))
    /\ pc' = "returned"
    /\ UNCHANGED <<store, input, query, params, df, openConns, connects, sessionVars>>

NextRank == GetComplexSqlMetrics

SpecRank == InitRank /\ [][NextRank]_vars

(***************************************************************************)
(* Properties of get_complex_sql_metrics, checked under SpecRank.          *)
(***************************************************************************)
\* the number of stored rows of a (date, category, country) group
GroupSize(date, category, country) ==
    Cardinality({i \in DOMAIN store : GroupKey(store[i]) = <<date, category, country>>})

GroupKeys == {GroupKey(store[i]) : i \in DOMAIN store}

\* C9: category_rank of a returned group is 1 plus the number of groups of
\* the same country, over all dates and categories, whose daily_count is
\* strictly greater; so equal counts share a rank and the next lower count
\* skips the tied positions.
C9_RankWithGaps ==
    pc = "returned" =>
        \A i \in DOMAIN metrics :
            LET m == metrics[i] IN
            /\ m.daily_count = GroupSize(m.date, m.category, m.country)
            /\ m.category_rank =
                 1 + Cardinality({k \in GroupKeys :
                                     /\ k[3] = m.country
                                     /\ GroupSize(k[1], k[2], k[3]) > m.daily_count})

\* two groups of one country tied at the top, the next one ranked 3
C9_Witness ==
    /\ pc = "returned"
    /\ \E i, j, l \in DOMAIN metrics :
          /\ i # j
          /\ metrics[i].country = metrics[j].country
          /\ metrics[l].country = metrics[i].country
          /\ metrics[i].daily_count = 2 /\ metrics[j].daily_count = 2
          /\ metrics[i].category_rank = 1 /\ metrics[j].category_rank = 1
          /\ metrics[l].daily_count = 1 /\ metrics[l].category_rank = 3

\* the cumulative_amount returned for a DailyStats row
CumOf(g) ==
    LET i == CHOOSE i \in DOMAIN metrics : GroupKey(metrics[i]) = GroupKey(g)
    IN  metrics[i].cumulative_amount

====
